---- MODULE Spec2Model ----
(***************************************************************************)
(* Model of the meeting finder of FinnTeach/find-a-meeting: the CSV load   *)
(* with its concurrent geocoding lookups and the process-wide geocoding    *)
(* cache, the row validator, the filter effect and the location grouper    *)
(* (src/src/App.tsx, the App variant of lines 202-754), together with the  *)
(* older validateMeeting variant of lines 785-799.                         *)
(*                                                                         *)
(* JavaScript strings are sequences of one-character strings, so that      *)
(* trim, toLowerCase, template formatting, split and number parsing are    *)
(* computed character by character.                                        *)
(***************************************************************************)
EXTENDS Integers, Sequences, FiniteSets, TLC

(***************************************************************************)
(* Bounds of the model.                                                    *)
(***************************************************************************)
\* Largest number of data rows in the CSV document.
MaxRows == 2
\* Largest number of criterion changes the user makes in one session.
MaxChanges == 2
\* The longest catalog handed to the filter and the grouper on their own.
MaxCatalog == 3

(***************************************************************************)
(* JavaScript values.                                                      *)
(***************************************************************************)
\* A property that is absent from an object (a CSV column that is missing).
Undefined == <<"undefined">>
\* The empty string.
Empty == <<>>
\* null, as a coordinates value.
Null == [tag |-> "null"]
\* The not-a-number result of parseFloat and Number; the numbers that the
\* digit strings of the model denote are naturals.
NaN == -1

\* if (v): a string is truthy when it is present and non-empty.
Truthy(v) == v # Undefined /\ v # Empty

\* a || b for strings.
OrElse(a, b) == IF Truthy(a) THEN a ELSE b

IsSpace(c) == c = " "

\* String.prototype.trim: drop leading and trailing white space.
RECURSIVE TrimStart(_)
TrimStart(s) ==
    IF s # <<>> /\ IsSpace(Head(s)) THEN TrimStart(Tail(s)) ELSE s

RECURSIVE TrimEnd(_)
TrimEnd(s) ==
    IF s # <<>> /\ IsSpace(s[Len(s)])
    THEN TrimEnd(SubSeq(s, 1, Len(s) - 1))
    ELSE s

Trim(s) == TrimEnd(TrimStart(s))

\* String.prototype.toLowerCase, on the letters that occur in the model.
LowerChar(c) ==
    CASE c = "M" -> "m"
      [] c = "P" -> "p"
      [] c = "R" -> "r"
      [] c = "V" -> "v"
      [] OTHER -> c

ToLowerCase(s) == [i \in 1..Len(s) |-> LowerChar(s[i])]

(***************************************************************************)
(* The string constants of the source.                                     *)
(***************************************************************************)
morning == <<"m", "o", "r", "n", "i", "n", "g">>
afternoon == <<"a", "f", "t", "e", "r", "n", "o", "o", "n">>
evening == <<"e", "v", "e", "n", "i", "n", "g">>
\* types/Meeting.ts: TimeOfDay
TimeOfDay == {morning, afternoon, evening}

inPerson == <<"i", "n", "-", "P", "e", "r", "s", "o", "n">>
virtual == <<"v", "i", "r", "t", "u", "a", "l">>
hybrid == <<"h", "y", "b", "r", "i", "d">>
\* types/Meeting.ts: MeetingType
MeetingType == {inPerson, virtual, hybrid}

UnnamedMeeting ==
    <<"U", "n", "n", "a", "m", "e", "d", " ", "M", "e", "e", "t", "i", "n", "g">>

(***************************************************************************)
(* Row Validator.                                                          *)
(***************************************************************************)
\* The value of a rejected row (validateMeeting returns null).
Rejected == [rejected |-> TRUE]
\* A row that is missing altogether (null or undefined in results.data).
NoRow == [missing |-> TRUE]

\* meeting.coordinates || null, where the row's coordinates column is text.
RowCoordinates(row) ==
    IF Truthy(row.coordinates)
    THEN [tag |-> "text", text |-> row.coordinates]
    ELSE Null

\* The validateMeeting variant that substitutes a name instead of rejecting
\* (App.tsx 785-799); it has no Zoom, notes or format fields.
validateMeetingUnnamed(row) ==
    IF row = NoRow THEN Rejected
    ELSE [name        |-> OrElse(row.name, UnnamedMeeting),
          description |-> OrElse(row.description, Empty),
          day         |-> OrElse(row.day, Empty),
          time        |-> OrElse(row.time, morning),
          timeDisplay |-> OrElse(row.timeDisplay, Empty),
          type        |-> OrElse(row.type, inPerson),
          address     |-> OrElse(row.address, Empty),
          Contact     |-> OrElse(row.Contact, Empty),
          zoomId      |-> Empty,
          notes       |-> Empty,
          format      |-> Empty,
          coordinates |-> RowCoordinates(row)]

\* A validator that tests the name without trimming it.
validateMeeting_noTrimTest(row) ==
    IF row = NoRow \/ ~Truthy(row.name)
    THEN Rejected
    ELSE [name        |-> Trim(row.name),
          description |-> OrElse(row.description, Empty),
          day         |-> OrElse(row.day, Empty),
          time        |-> OrElse(row.time, morning),
          timeDisplay |-> OrElse(row.timeDisplay, Empty),
          type        |-> OrElse(row.type, inPerson),
          address     |-> OrElse(row.address, Empty),
          Contact     |-> OrElse(row.Contact, Empty),
          zoomId      |-> OrElse(row.Zoomid, OrElse(row.zoomId, Empty)),
          notes       |-> OrElse(row.Notes, OrElse(row.notes, Empty)),
          format      |-> OrElse(row.format, Empty),
          coordinates |-> RowCoordinates(row)]

\* validateMeeting (App.tsx 537-554).
\* A validator that prefers the lower-case aliases.
validateMeeting_lowerCaseFirst(row) ==
    IF row = NoRow \/ ~Truthy(row.name) \/ Trim(row.name) = Empty
    THEN Rejected
    ELSE [name        |-> Trim(row.name),
          description |-> OrElse(row.description, Empty),
          day         |-> OrElse(row.day, Empty),
          time        |-> OrElse(row.time, morning),
          timeDisplay |-> OrElse(row.timeDisplay, Empty),
          type        |-> OrElse(row.type, inPerson),
          address     |-> OrElse(row.address, Empty),
          Contact     |-> OrElse(row.Contact, Empty),
          zoomId      |-> OrElse(row.zoomId, OrElse(row.Zoomid, Empty)),
          notes       |-> OrElse(row.notes, OrElse(row.Notes, Empty)),
          format      |-> OrElse(row.format, Empty),
          coordinates |-> RowCoordinates(row)]

validateMeeting(row) ==
    IF row = NoRow \/ ~Truthy(row.name) \/ Trim(row.name) = Empty
    THEN Rejected
    ELSE [name        |-> Trim(row.name),
          description |-> OrElse(row.description, Empty),
          day         |-> OrElse(row.day, Empty),
          time        |-> OrElse(row.time, morning),
          timeDisplay |-> OrElse(row.timeDisplay, Empty),
          type        |-> OrElse(row.type, inPerson),
          address     |-> OrElse(row.address, Empty),
          Contact     |-> OrElse(row.Contact, Empty),
          zoomId      |-> OrElse(row.Zoomid, OrElse(row.zoomId, Empty)),
          notes       |-> OrElse(row.Notes, OrElse(row.notes, Empty)),
          format      |-> OrElse(row.format, Empty),
          coordinates |-> RowCoordinates(row)]

(***************************************************************************)
(* Numbers and their text forms.                                           *)
(***************************************************************************)
Digits == <<"0", "1", "2", "3", "4", "5", "6", "7", "8", "9">>

IsDigit(c) == \E d \in 1..10 : Digits[d] = c

DigitValue(c) == (CHOOSE d \in 1..10 : Digits[d] = c) - 1

\* The longest prefix of s made of digits.
RECURSIVE DigitPrefix(_)
DigitPrefix(s) ==
    IF s # <<>> /\ IsDigit(Head(s))
    THEN <<Head(s)>> \o DigitPrefix(Tail(s))
    ELSE <<>>

\* The natural number a non-empty digit string denotes.
RECURSIVE DigitsValue(_)
DigitsValue(s) ==
    IF Len(s) = 1 THEN DigitValue(s[1])
    ELSE 10 * DigitsValue(SubSeq(s, 1, Len(s) - 1)) + DigitValue(s[Len(s)])

\* parseFloat: skip leading white space, read the longest numeric prefix,
\* NaN when there is none (also for an absent field, which reads as the
\* text "undefined").
ParseFloat(s) ==
    IF s = Undefined THEN NaN
    ELSE LET p == DigitPrefix(TrimStart(s))
         IN IF p = <<>> THEN NaN ELSE DigitsValue(p)

\* Number(text): the whole trimmed text must be numeric; the empty text
\* is 0.
ToNumber(s) ==
    LET t == Trim(s)
    IN IF t = <<>> THEN 0
       ELSE IF DigitPrefix(t) = t THEN DigitsValue(t) ELSE NaN

\* `${n}` for a number.
RECURSIVE NumberToString(_)
NumberToString(n) ==
    IF n = NaN THEN <<"N", "a", "N">>
    ELSE IF n < 10 THEN <<Digits[n + 1]>>
    ELSE NumberToString(n \div 10) \o <<Digits[(n % 10) + 1]>>

\* String.prototype.split(',').
RECURSIVE Split(_)
Split(s) ==
    IF \A i \in 1..Len(s) : s[i] # ","
    THEN <<s>>
    ELSE LET k == CHOOSE i \in 1..Len(s) :
                      s[i] = "," /\ \A j \in 1..(i - 1) : s[j] # ","
         IN <<SubSeq(s, 1, k - 1)>> \o Split(SubSeq(s, k + 1, Len(s)))

(***************************************************************************)
(* Location Grouper.                                                       *)
(***************************************************************************)
\* meeting.coordinates is truthy: a resolved pair (even of NaN) or a
\* non-empty text taken from the row.
HasCoordinates(m) == m.coordinates # Null

\* `${coordinates[i]}`, i = 0 or 1: a number of a resolved pair, or a
\* character of a coordinates text ("undefined" beyond its end).
CoordinateText(c, i) ==
    IF c.tag = "pair"
    THEN NumberToString(IF i = 0 THEN c.lat ELSE c.lon)
    ELSE IF i + 1 <= Len(c.text)
         THEN <<c.text[i + 1]>>
         ELSE <<"u", "n", "d", "e", "f", "i", "n", "e", "d">>

\* The key of locationMap: `${coordinates[0]},${coordinates[1]}`.
LocationKey(m) ==
    CoordinateText(m.coordinates, 0) \o <<",">> \o
    CoordinateText(m.coordinates, 1)

\* A grouper that takes every meeting with coordinates.
OnMap_virtualToo(m) == HasCoordinates(m)

\* The condition of line 435.
OnMap(m) == HasCoordinates(m) /\ ToLowerCase(m.type) # virtual

\* The keys of locationMap in insertion order.
RECURSIVE LocationKeys(_)
LocationKeys(ms) ==
    IF ms = <<>> THEN <<>>
    ELSE LET rest == LocationKeys(SubSeq(ms, 1, Len(ms) - 1))
             m == ms[Len(ms)]
         IN IF OnMap(m) /\ \A i \in 1..Len(rest) : rest[i] # LocationKey(m)
            THEN Append(rest, LocationKey(m))
            ELSE rest

\* const [lat, lng] = key.split(',').map(Number)
KeyCoordinates(key) ==
    LET parts == Split(key)
    IN [tag |-> "pair",
        lat |-> ToNumber(parts[1]),
        lon |-> IF Len(parts) >= 2 THEN ToNumber(parts[2]) ELSE NaN]

\* locationMap.get(key): the meetings pushed under the key, in input order.
LocationMembers(ms, key) ==
    LET Member(m) == OnMap(m) /\ LocationKey(m) = key
    IN SelectSeq(ms, Member)

groupMeetingsByLocation(ms) ==
    LET keys == LocationKeys(ms)
    IN [g \in 1..Len(keys) |->
           [coordinates |-> KeyCoordinates(keys[g]),
            meetings    |-> LocationMembers(ms, keys[g])]]

(***************************************************************************)
(* Filter Engine: the body of the filter effect.                           *)
(***************************************************************************)
\* A filter that applies the time test also when no time is selected.
FilterMeetings_emptyIsCriterion(ms, day, time, type, format) ==
    LET DayOk(m) == ToLowerCase(m.day) = ToLowerCase(day)
        TimeOk(m) == m.time = time
        TypeOk(m) == m.type = type
        FormatOk(m) == ToLowerCase(m.format) = ToLowerCase(format)
        NameOk(m) == Truthy(m.name) /\ Trim(m.name) # Empty
        f1 == IF Truthy(day) THEN SelectSeq(ms, DayOk) ELSE ms
        f2 == SelectSeq(f1, TimeOk)
        f3 == IF Truthy(type) THEN SelectSeq(f2, TypeOk) ELSE f2
        f4 == IF Truthy(format) THEN SelectSeq(f3, FormatOk) ELSE f3
    IN SelectSeq(f4, NameOk)

\* A filter that compares day and format as written.
FilterMeetings_caseSensitive(ms, day, time, type, format) ==
    LET DayOk(m) == m.day = day
        TimeOk(m) == m.time = time
        TypeOk(m) == m.type = type
        FormatOk(m) == m.format = format
        NameOk(m) == Truthy(m.name) /\ Trim(m.name) # Empty
        f1 == IF Truthy(day) THEN SelectSeq(ms, DayOk) ELSE ms
        f2 == IF Truthy(time) THEN SelectSeq(f1, TimeOk) ELSE f1
        f3 == IF Truthy(type) THEN SelectSeq(f2, TypeOk) ELSE f2
        f4 == IF Truthy(format) THEN SelectSeq(f3, FormatOk) ELSE f3
    IN SelectSeq(f4, NameOk)

FilterMeetings(ms, day, time, type, format) ==
    LET DayOk(m) == ToLowerCase(m.day) = ToLowerCase(day)
        TimeOk(m) == m.time = time
        TypeOk(m) == m.type = type
        FormatOk(m) == ToLowerCase(m.format) = ToLowerCase(format)
        NameOk(m) == Truthy(m.name) /\ Trim(m.name) # Empty
        f1 == IF Truthy(day) THEN SelectSeq(ms, DayOk) ELSE ms
        f2 == IF Truthy(time) THEN SelectSeq(f1, TimeOk) ELSE f1
        f3 == IF Truthy(type) THEN SelectSeq(f2, TypeOk) ELSE f2
        f4 == IF Truthy(format) THEN SelectSeq(f3, FormatOk) ELSE f3
    IN SelectSeq(f4, NameOk)

(***************************************************************************)
(* Inputs of the model: addresses, CSV rows, responses of the services.    *)
(***************************************************************************)
\* Two addresses unknown to the cache and one of the preloaded ones.
addressA == <<"1", " ", "A">>
addressB == <<"2", " ", "B">>
seedAddress == <<"5", "1", "5">>

\* preloadedCoordinates, cut down to one entry; degrees are naturals here.
preloadedCoordinates ==
    [a \in {seedAddress} |-> [tag |-> "pair", lat |-> 43, lon |-> 70]]

Monday == <<"M", "o", "n", "d", "a", "y">>
monday == <<"m", "o", "n", "d", "a", "y">>
Regular == <<"R", "e", "g", "u", "l", "a", "r">>
Virtual == <<"V", "i", "r", "t", "u", "a", "l">>
night == <<"n", "i", "g", "h", "t">>

\* A row object of results.data: one property per CSV column.
MkRow(name, description, day, time, type, address, format, coordinates) ==
    [name        |-> name,
     description |-> description,
     day         |-> day,
     time        |-> time,
     timeDisplay |-> Undefined,
     type        |-> type,
     address     |-> address,
     Contact     |-> Undefined,
     Zoomid      |-> Undefined,
     zoomId      |-> Undefined,
     Notes       |-> Undefined,
     notes       |-> Undefined,
     format      |-> format,
     coordinates |-> coordinates]

\* The rows a CSV document of the model is made of; the description
\* tells the rows apart.
RowPool ==
    { MkRow(<<"a">>, <<"r", "1">>, Monday, morning, inPerson,
            addressA, Regular, Undefined),
      MkRow(<<" ", "b", " ">>, <<"r", "2">>, monday, evening, virtual,
            addressA, Empty, Undefined),
      MkRow(<<" ">>, <<"r", "3">>, Monday, morning, inPerson,
            addressB, Regular, Undefined),
      MkRow(<<"c">>, <<"r", "4">>, Undefined, night, Undefined,
            addressB, Undefined, Undefined),
      MkRow(<<"d">>, <<"r", "5">>, monday, evening, Virtual,
            seedAddress, Regular, Undefined),
      MkRow(<<"e">>, <<"r", "6">>, Empty, afternoon, hybrid,
            Empty, Empty, <<"4", "3">>) }

\* results.data of a parsed document: up to MaxRows rows.
CsvDocuments == UNION { [1..n -> RowPool] : n \in 0..MaxRows }

\* How a fetch settles: it rejects, or resolves with response.ok false or
\* true.
FetchOutcomes == {"reject", "notok", "ok"}

\* How response.json() of the geocoding service settles: it rejects (the
\* body is not JSON), or resolves with the parsed body.
JsonBodies ==
    { [kind |-> "invalid"],
      [kind |-> "data", data |-> <<>>],
      [kind |-> "data", data |-> <<[lat |-> <<"4", "2">>, lon |-> <<"7">>]>>],
      [kind |-> "data", data |-> <<[lat |-> <<"x">>, lon |-> Undefined]>>] }

\* text has no numeric prefix for parseFloat to read.
Unparseable(text) ==
    \/ text = Undefined
    \/ \A i \in 1..Len(text) :
           IsDigit(text[i]) => \E j \in 1..(i - 1) : ~IsSpace(text[j])

\* The body is malformed (not JSON, or a first element without parseable
\* lat/lon) or an empty result set.
FailedBody(body) ==
    \/ body.kind = "invalid"
    \/ body.data = <<>>
    \/ Unparseable(body.data[1].lat)
    \/ Unparseable(body.data[1].lon)

\* The choices of the filter controls.
DayChoices == {Empty, monday}
TimeChoices == {Empty, evening}
TypeChoices == {Empty, virtual}
FormatChoices == {Empty, Regular}

\* error === null.
NoError == "null"

(***************************************************************************)
(* State.                                                                  *)
(***************************************************************************)
VARIABLES
    phase,            \* position of the load effect
    csv,              \* how the fetch and the parse of the CSV went
    rows,             \* results.data of the parsed CSV
    parsedMeetings,   \* the validated rows of the load
    lookups,          \* the geocodeAddress calls of Promise.all: the
                      \* address, the position in the function, the
                      \* value returned, and whether the service failed
                      \* (network error, response not ok, malformed or
                      \* empty body)
    geocodingCache,   \* the process-wide cache
    fetched,          \* external lookups issued so far, per address
    meetings,         \* useState: the catalog
    filteredMeetings, \* useState: the filtered list
    selectedDay, selectedTime, selectedType, selectedFormat,
    error,            \* useState: the error message
    isLoading,        \* useState: the loading flag
    effectPending,    \* the filter effect is scheduled
    changes,          \* criterion changes made so far
    input, output,    \* argument and result of a function called on its own
    called,           \* the function that was called, if any
    openMarker,       \* the index of the marker whose popup is open
    currentIndex      \* useState of the MeetingPopup of that marker

vars == <<phase, csv, rows, parsedMeetings, lookups, geocodingCache, fetched,
          meetings, filteredMeetings, selectedDay, selectedTime,
          selectedType, selectedFormat, error, isLoading, effectPending,
          changes, input, output, called, openMarker, currentIndex>>

loadVars == <<phase, csv, rows, parsedMeetings, lookups, geocodingCache, fetched,
              meetings, filteredMeetings, error, isLoading>>
criteriaVars == <<selectedDay, selectedTime, selectedType, selectedFormat>>
callVars == <<input, output, called>>
popupVars == <<openMarker, currentIndex>>

\* No popup is open.
NoMarker == -1

\* A render with a new filtered list (lines 716-731): the markers are
\* keyed by their index, so the open popup keeps its MeetingPopup and
\* the state of it while a group of its index exists, and is unmounted
\* otherwise.
Rerender(ms) ==
    IF openMarker # NoMarker
          /\ openMarker < Len(groupMeetingsByLocation(ms))
    THEN UNCHANGED popupVars
    ELSE openMarker' = NoMarker /\ currentIndex' = 0

Addresses == {addressA, addressB, seedAddress}

\* The state after the first render and its effects: the CSV fetch is in
\* flight and the filter effect has run on the empty catalog.
Init ==
    /\ phase = "fetching"
    /\ csv = "pending"
    /\ rows = <<>>
    /\ parsedMeetings = <<>>
    /\ lookups = <<>>
    /\ geocodingCache = preloadedCoordinates
    /\ fetched = [a \in Addresses |-> 0]
    /\ meetings = <<>>
    /\ filteredMeetings = <<>>
    /\ selectedDay = Empty
    /\ selectedTime = Empty
    /\ selectedType = Empty
    /\ selectedFormat = Empty
    /\ error = NoError
    /\ isLoading = TRUE
    /\ effectPending = FALSE
    /\ changes = 0
    /\ input = NoRow
    /\ output = Rejected
    /\ called = "none"
    /\ openMarker = NoMarker
    /\ currentIndex = 0

(***************************************************************************)
(* Geocode Resolver.                                                       *)
(***************************************************************************)
\* A cache that holds the last written address only.
CacheSet_evicting(cache, address, value) ==
    [a \in {address} |-> value]

\* geocodingCache.set(address, value)
CacheSet(cache, address, value) ==
    [a \in DOMAIN cache \cup {address} |->
        IF a = address THEN value ELSE cache[a]]

\* geocodingCache.get(address) || null
CacheGetOrNull(cache, address) ==
    IF address \in DOMAIN cache THEN cache[address] ELSE Null

\* Lines 517-528: the value geocodeAddress computes from the parsed body;
\* a body that is not JSON makes response.json() reject, which the catch
\* of line 529 turns into null.
GeocodeResult(body) ==
    IF body.kind = "invalid" THEN Null
    ELSE IF body.data # <<>>
         THEN [tag |-> "pair",
               lat |-> ParseFloat(body.data[1].lat),
               lon |-> ParseFloat(body.data[1].lon)]
         ELSE Null

\* Lines 587-589: the addresses handed to geocodeAddress, one per meeting
\* with an address the cache does not hold.
AddressesToGeocode(ms, cache) ==
    LET Needs(m) == Truthy(m.address) /\ m.address \notin DOMAIN cache
        sel == SelectSeq(ms, Needs)
    IN [i \in 1..Len(sel) |-> sel[i].address]

\* Lines 492-509, up to the first await: a call of geocodeAddress returns
\* at once for an empty or cached address and issues a fetch otherwise.
StartLookup(address, cache) ==
    IF ~Truthy(address)
    THEN [address |-> address, pc |-> "done", failed |-> FALSE,
          result |-> Null]
    ELSE IF address \in DOMAIN cache
    THEN [address |-> address, pc |-> "done", failed |-> FALSE,
          result |-> cache[address]]
    ELSE [address |-> address, pc |-> "fetch", failed |-> FALSE,
          result |-> Null]

\* The number of fetches a batch of started calls issues for an address.
FetchesFor(ls, address) ==
    Cardinality({i \in 1..Len(ls) :
                    ls[i].address = address /\ ls[i].pc = "fetch"})

(***************************************************************************)
(* Meeting Catalog Builder: the load effect.                               *)
(***************************************************************************)
\* Lines 581-583: validate every row and discard the rejects.
ParseMeetings(data) ==
    LET validated == [i \in 1..Len(data) |-> validateMeeting(data[i])]
        Kept(m) == m # Rejected
    IN SelectSeq(validated, Kept)

\* A build that gives each meeting the value its own geocodeAddress call
\* returned instead of reading the cache after the await.
AssignCoordinates_ownResult(ms, cache) ==
    LET Looked(k) == \E l \in 1..Len(lookups) : lookups[l].address = ms[k].address
        Own(i) == Cardinality({k \in 1..i : Looked(k)})
    IN [i \in 1..Len(ms) |->
           IF Truthy(ms[i].address)
           THEN [ms[i] EXCEPT !.coordinates =
                    IF Looked(i) THEN lookups[Own(i)].result
                    ELSE CacheGetOrNull(cache, ms[i].address)]
           ELSE ms[i]]

\* A build that drops the meetings whose address did not resolve.
AssignCoordinates_dropUnmapped(ms, cache) ==
    LET Mapped(m) ==
            Truthy(m.address) => CacheGetOrNull(cache, m.address) # Null
        kept == SelectSeq(ms, Mapped)
    IN [i \in 1..Len(kept) |->
           IF Truthy(kept[i].address)
           THEN [kept[i] EXCEPT !.coordinates =
                    CacheGetOrNull(cache, kept[i].address)]
           ELSE kept[i]]

\* Lines 598-606: attach the cached coordinates to the meetings that have
\* an address.
AssignCoordinates(ms, cache) ==
    [i \in 1..Len(ms) |->
        IF Truthy(ms[i].address)
        THEN [ms[i] EXCEPT !.coordinates = CacheGetOrNull(cache, ms[i].address)]
        ELSE ms[i]]

\* A publication that leaves the loading flag as it is.
Publish_keepLoading(ms) ==
    /\ meetings' = ms
    /\ filteredMeetings' = ms
    /\ isLoading' = isLoading
    /\ effectPending' = TRUE
    /\ phase' = "published"
    /\ Rerender(ms)

\* A publication that shows the validated rows, not the built catalog.
Publish_parsedAsFiltered(ms) ==
    /\ meetings' = ms
    /\ filteredMeetings' = parsedMeetings
    /\ isLoading' = FALSE
    /\ effectPending' = TRUE
    /\ phase' = "published"
    /\ Rerender(parsedMeetings)

\* A publication after which the filter effect does not run.
Publish_noEffect(ms) ==
    /\ meetings' = ms
    /\ filteredMeetings' = ms
    /\ isLoading' = FALSE
    /\ effectPending' = effectPending
    /\ phase' = "published"
    /\ Rerender(ms)

\* Lines 610-612: the three state updates of one batch.
Publish(ms) ==
    /\ meetings' = ms
    /\ filteredMeetings' = ms
    /\ isLoading' = FALSE
    /\ effectPending' = TRUE
    /\ phase' = "published"
    /\ Rerender(ms)

\* Lines 618-627: the error callback of the parse and the catch of the
\* fetch chain.
FailLoad(cause, message) ==
    /\ error' = message
    /\ phase' = "failed"
    /\ csv' = cause
    /\ UNCHANGED <<rows, parsedMeetings, lookups, geocodingCache, fetched,
                   meetings, filteredMeetings, isLoading, effectPending>>

\* A check of the response that lets every response through.
ResponseOk_always(outcome) == TRUE

\* response.ok of a resolved fetch.
ResponseOk(outcome) == outcome = "ok"

\* fetch(csvPath) settles (lines 569-575).
CsvFetchSettles(outcome) ==
    /\ phase = "fetching"
    /\ IF outcome = "reject" \/ ~ResponseOk(outcome)
       THEN FailLoad(outcome, "Failed to load meetings data")
       ELSE /\ phase' = "reading"
            /\ csv' = outcome
            /\ UNCHANGED <<rows, parsedMeetings, lookups, geocodingCache,
                           fetched, meetings, filteredMeetings, error,
                           isLoading, effectPending>>
    /\ UNCHANGED <<criteriaVars, changes, callVars, popupVars>>

\* response.text() rejects: the catch of line 624 runs.
CsvTextRejects ==
    /\ phase = "reading"
    /\ FailLoad("textreject", "Failed to load meetings data")
    /\ UNCHANGED <<criteriaVars, changes, callVars, popupVars>>

\* Papa.parse calls its error callback (lines 618-621).
CsvParseError ==
    /\ phase = "reading"
    /\ FailLoad("parseerror", "Error parsing CSV file")
    /\ UNCHANGED <<criteriaVars, changes, callVars, popupVars>>

\* Papa.parse calls complete (lines 579-596): the rows are validated and
\* a lookup is started for each address to geocode; with none to geocode
\* the callback runs on to the end and publishes.
CsvParseComplete(data) ==
    /\ phase = "reading"
    /\ LET parsed == ParseMeetings(data)
           addrs == AddressesToGeocode(parsed, geocodingCache)
           started == [i \in 1..Len(addrs) |->
                          StartLookup(addrs[i], geocodingCache)]
       IN /\ csv' = "parsed"
          /\ rows' = data
          /\ parsedMeetings' = parsed
          /\ lookups' = started
          /\ fetched' = [a \in Addresses |-> fetched[a] + FetchesFor(started, a)]
          /\ IF Len(addrs) > 0
             THEN /\ phase' = "geocoding"
                  /\ UNCHANGED <<meetings, filteredMeetings, isLoading,
                                 effectPending, popupVars>>
             ELSE Publish(AssignCoordinates(parsed, geocodingCache))
    /\ UNCHANGED <<geocodingCache, error, criteriaVars, changes, callVars>>

\* The fetch of lookup i settles (lines 502-515 and the catch of 529).
GeocodeFetchSettles(i, outcome) ==
    /\ i \in 1..Len(lookups)
    /\ lookups[i].pc = "fetch"
    /\ IF outcome = "reject" \/ ~ResponseOk(outcome)
       THEN /\ geocodingCache' =
                   CacheSet(geocodingCache, lookups[i].address, Null)
            /\ lookups' = [lookups EXCEPT
                   ![i].pc = "done",
                   ![i].failed = TRUE,
                   ![i].result = Null]
       ELSE /\ lookups' = [lookups EXCEPT ![i].pc = "json"]
            /\ UNCHANGED geocodingCache
    /\ UNCHANGED <<phase, csv, rows, parsedMeetings, fetched, meetings,
                   filteredMeetings, error, isLoading, effectPending,
                   criteriaVars, changes, callVars, popupVars>>

\* response.json() of lookup i settles (lines 517-533).
GeocodeJsonSettles(i, body) ==
    /\ i \in 1..Len(lookups)
    /\ lookups[i].pc = "json"
    /\ geocodingCache' =
           CacheSet(geocodingCache, lookups[i].address, GeocodeResult(body))
    /\ lookups' = [lookups EXCEPT ![i].pc = "done",
                                  ![i].failed = FailedBody(body),
                                  ![i].result = GeocodeResult(body)]
    /\ UNCHANGED <<phase, csv, rows, parsedMeetings, fetched, meetings,
                   filteredMeetings, error, isLoading, effectPending,
                   criteriaVars, changes, callVars, popupVars>>

\* A callback that does not wait for the calls.
LookupsSettled_noAwait(ls) == TRUE

\* The await of line 595 is over when every call has returned.
LookupsSettled(ls) == \A i \in 1..Len(ls) : ls[i].pc = "done"

\* Promise.all resolves and the callback runs on (lines 598-612).
GeocodingDone ==
    /\ phase = "geocoding"
    /\ LookupsSettled(lookups)
    /\ Publish(AssignCoordinates(parsedMeetings, geocodingCache))
    /\ UNCHANGED <<csv, rows, parsedMeetings, lookups, geocodingCache, fetched,
                   error, criteriaVars, changes, callVars>>

(***************************************************************************)
(* Filter controls and the filter effect.                                  *)
(***************************************************************************)
\* handleDayChange (FilterControls.tsx 148-150) with setSelectedDay.
DayChange(value) ==
    /\ changes < MaxChanges
    /\ ToLowerCase(value) # selectedDay
    /\ selectedDay' = ToLowerCase(value)
    /\ effectPending' = TRUE
    /\ changes' = changes + 1
    /\ UNCHANGED <<loadVars, selectedTime, selectedType, selectedFormat,
                   callVars, popupVars>>

\* handleTimeChange with setSelectedTime.
TimeChange(value) ==
    /\ changes < MaxChanges
    /\ value # selectedTime
    /\ selectedTime' = value
    /\ effectPending' = TRUE
    /\ changes' = changes + 1
    /\ UNCHANGED <<loadVars, selectedDay, selectedType, selectedFormat,
                   callVars, popupVars>>

\* handleTypeChange with setSelectedType.
TypeChange(value) ==
    /\ changes < MaxChanges
    /\ value # selectedType
    /\ selectedType' = value
    /\ effectPending' = TRUE
    /\ changes' = changes + 1
    /\ UNCHANGED <<loadVars, selectedDay, selectedTime, selectedFormat,
                   callVars, popupVars>>

\* onFormatChange with setSelectedFormat.
FormatChange(value) ==
    /\ changes < MaxChanges
    /\ value # selectedFormat
    /\ selectedFormat' = value
    /\ effectPending' = TRUE
    /\ changes' = changes + 1
    /\ UNCHANGED <<loadVars, selectedDay, selectedTime, selectedType,
                   callVars, popupVars>>

\* A reset without the format setter, which is an optional prop.
Reset_keepsFormat ==
    /\ changes < MaxChanges
    /\ <<selectedDay, selectedTime, selectedType, selectedFormat>> #
           <<Empty, Empty, Empty, Empty>>
    /\ selectedDay' = Empty
    /\ selectedTime' = Empty
    /\ selectedType' = Empty
    /\ selectedFormat' = selectedFormat
    /\ effectPending' = TRUE
    /\ changes' = changes + 1
    /\ UNCHANGED <<loadVars, callVars, popupVars>>

\* handleReset (FilterControls.tsx 160-165); a reset that changes no
\* criterion causes no render.
Reset ==
    /\ changes < MaxChanges
    /\ <<selectedDay, selectedTime, selectedType, selectedFormat>> #
           <<Empty, Empty, Empty, Empty>>
    /\ selectedDay' = Empty
    /\ selectedTime' = Empty
    /\ selectedType' = Empty
    /\ selectedFormat' = Empty
    /\ effectPending' = TRUE
    /\ changes' = changes + 1
    /\ UNCHANGED <<loadVars, callVars, popupVars>>

\* A filter effect that stores its result as the catalog too.
FilterEffect_writesCatalog ==
    /\ effectPending
    /\ filteredMeetings' = FilterMeetings(meetings, selectedDay, selectedTime,
                                          selectedType, selectedFormat)
    /\ meetings' = filteredMeetings'
    /\ effectPending' = FALSE
    /\ Rerender(filteredMeetings')
    /\ UNCHANGED <<phase, csv, rows, parsedMeetings, lookups, geocodingCache,
                   fetched, error, isLoading, criteriaVars,
                   changes, callVars>>

\* The filter effect (lines 630-666) runs after a render in which one of
\* its dependencies changed.
FilterEffect ==
    /\ effectPending
    /\ filteredMeetings' = FilterMeetings(meetings, selectedDay, selectedTime,
                                          selectedType, selectedFormat)
    /\ effectPending' = FALSE
    /\ Rerender(filteredMeetings')
    /\ UNCHANGED <<phase, csv, rows, parsedMeetings, lookups, geocodingCache,
                   fetched, meetings, error, isLoading, criteriaVars,
                   changes, callVars>>

Next ==
    \/ \E outcome \in FetchOutcomes : CsvFetchSettles(outcome)
    \/ CsvTextRejects
    \/ CsvParseError
    \/ \E data \in CsvDocuments : CsvParseComplete(data)
    \/ \E i \in 1..Len(lookups), outcome \in FetchOutcomes :
           GeocodeFetchSettles(i, outcome)
    \/ \E i \in 1..Len(lookups), body \in JsonBodies :
           GeocodeJsonSettles(i, body)
    \/ GeocodingDone
    \/ \E value \in DayChoices : DayChange(value)
    \/ \E value \in TimeChoices : TimeChange(value)
    \/ \E value \in TypeChoices : TypeChange(value)
    \/ \E value \in FormatChoices : FormatChange(value)
    \/ Reset
    \/ FilterEffect

Spec == Init /\ [][Next]_vars

\* The derived view of the map: one marker per group of the filtered list.
markerGroups == groupMeetingsByLocation(filteredMeetings)

(***************************************************************************)
(* The row validator on its own: one call of a validator on a row whose    *)
(* columns are drawn from ValidatorNames, ValidatorTimes, ValidatorTypes.  *)
(***************************************************************************)
ValidatorNames ==
    { Undefined, Empty, <<" ">>, <<" ", " ">>, <<"a">>, <<" ", "a">>,
      <<"a", " ">>, <<" ", "a", " ", "b", " ">> }
ValidatorTimes == {Undefined, Empty, morning, afternoon, evening, night}
ValidatorTypes == {Undefined, Empty, inPerson, virtual, hybrid, Virtual}

\* Values of the Zoomid, zoomId, Notes and notes columns.
ValidatorAliases == {Undefined, Empty, <<"1">>, <<"2">>}

\* Rows that differ in their alias columns.
AliasRows ==
    { [MkRow(<<"a">>, Empty, Monday, morning, inPerson, addressA, Regular,
             Undefined)
          EXCEPT !.Zoomid = z1, !.zoomId = z2, !.Notes = n1, !.notes = n2] :
        z1 \in ValidatorAliases, z2 \in ValidatorAliases,
        n1 \in ValidatorAliases, n2 \in ValidatorAliases }

ValidatorInputs ==
    {NoRow} \cup
    { MkRow(n, Empty, Monday, t, y, addressA, Regular, Undefined) :
        n \in ValidatorNames, t \in ValidatorTimes, y \in ValidatorTypes }
    \cup AliasRows

InitValidate ==
    /\ phase = "fetching"
    /\ csv = "pending"
    /\ rows = <<>>
    /\ parsedMeetings = <<>>
    /\ lookups = <<>>
    /\ geocodingCache = preloadedCoordinates
    /\ fetched = [a \in Addresses |-> 0]
    /\ meetings = <<>>
    /\ filteredMeetings = <<>>
    /\ selectedDay = Empty
    /\ selectedTime = Empty
    /\ selectedType = Empty
    /\ selectedFormat = Empty
    /\ error = NoError
    /\ isLoading = TRUE
    /\ effectPending = FALSE
    /\ changes = 0
    /\ input \in ValidatorInputs
    /\ output = Rejected
    /\ called = "none"
    /\ openMarker = NoMarker
    /\ currentIndex = 0

\* validateMeeting of lines 537-554 is called on the row.
CallValidateMeeting ==
    /\ called = "none"
    /\ openMarker = NoMarker
    /\ currentIndex = 0
    /\ output' = validateMeeting(input)
    /\ called' = "validateMeeting"
    /\ UNCHANGED <<loadVars, criteriaVars, effectPending, changes, input,
                   popupVars>>

\* validateMeeting of lines 785-799 is called on the row.
CallValidateMeetingUnnamed ==
    /\ called = "none"
    /\ openMarker = NoMarker
    /\ currentIndex = 0
    /\ output' = validateMeetingUnnamed(input)
    /\ called' = "validateMeetingUnnamed"
    /\ UNCHANGED <<loadVars, criteriaVars, effectPending, changes, input,
                   popupVars>>

NextValidate ==
    \/ CallValidateMeeting
    \/ CallValidateMeetingUnnamed

SpecValidate == InitValidate /\ [][NextValidate]_vars

(***************************************************************************)
(* The filter and the grouper on their own: the body of the filter effect  *)
(* is applied to a catalog and four criteria, and groupMeetingsByLocation  *)
(* to its result, as the render of line 716 does.                          *)
(***************************************************************************)
regular == <<"r", "e", "g", "u", "l", "a", "r">>
resolvedA == [tag |-> "pair", lat |-> 42, lon |-> 7]
resolvedB == [tag |-> "pair", lat |-> 43, lon |-> 70]

\* The meeting the load makes of a row whose address resolves to c.
Located(row, c) == [validateMeeting(row) EXCEPT !.coordinates = c]

\* Catalog entries: meetings as the load builds them, and one with a
\* blank name, which only the filter itself can meet.
MeetingPool ==
    { Located(MkRow(<<"a">>, <<"m", "1">>, Monday, morning, inPerson,
                    addressA, Regular, Undefined), resolvedA),
      Located(MkRow(<<"b">>, <<"m", "2">>, monday, evening, virtual,
                    addressA, Empty, Undefined), resolvedA),
      Located(MkRow(<<"c">>, <<"m", "3">>, monday, evening, hybrid,
                    addressB, regular, Undefined), resolvedB),
      Located(MkRow(<<"d">>, <<"m", "4">>, Empty, morning, inPerson,
                    Empty, Empty, Undefined), Null),
      [Located(MkRow(<<"e">>, <<"m", "5">>, monday, evening, virtual,
                     addressB, Regular, Undefined), resolvedB)
          EXCEPT !.name = <<" ">>],
      Located(MkRow(<<"f">>, <<"m", "6">>, Monday, afternoon, hybrid,
                    addressA, Regular, Undefined), resolvedA),
      Located(MkRow(<<"g">>, <<"m", "7">>, monday, evening, Virtual,
                    seedAddress, Regular, Undefined), resolvedB) }

ViewInputs ==
    [catalog : UNION { [1..n -> MeetingPool] : n \in 0..MaxCatalog },
     day     : DayChoices,
     time    : TimeChoices,
     type    : TypeChoices,
     format  : FormatChoices]

InitView ==
    /\ phase = "fetching"
    /\ csv = "pending"
    /\ rows = <<>>
    /\ parsedMeetings = <<>>
    /\ lookups = <<>>
    /\ geocodingCache = preloadedCoordinates
    /\ fetched = [a \in Addresses |-> 0]
    /\ meetings = <<>>
    /\ filteredMeetings = <<>>
    /\ selectedDay = Empty
    /\ selectedTime = Empty
    /\ selectedType = Empty
    /\ selectedFormat = Empty
    /\ error = NoError
    /\ isLoading = TRUE
    /\ effectPending = FALSE
    /\ changes = 0
    /\ input \in ViewInputs
    /\ output = <<>>
    /\ called = "none"
    /\ openMarker = NoMarker
    /\ currentIndex = 0

\* Lines 630-666 on the catalog and the criteria of the input.
CallFilterMeetings ==
    /\ called = "none"
    /\ openMarker = NoMarker
    /\ currentIndex = 0
    /\ output' = FilterMeetings(input.catalog, input.day, input.time,
                                input.type, input.format)
    /\ called' = "filterMeetings"
    /\ UNCHANGED <<loadVars, criteriaVars, effectPending, changes, input,
                   popupVars>>

\* Line 716: groupMeetingsByLocation(filteredMeetings) on the list the
\* filter produced.
CallGroupMeetingsByLocation ==
    /\ called = "filterMeetings"
    /\ output' = [meetings |-> output,
                  groups   |-> groupMeetingsByLocation(output)]
    /\ called' = "groupMeetingsByLocation"
    /\ UNCHANGED <<loadVars, criteriaVars, effectPending, changes, input,
                   popupVars>>

NextView ==
    \/ CallFilterMeetings
    \/ CallGroupMeetingsByLocation

SpecView == InitView /\ [][NextView]_vars

(***************************************************************************)
(* The page after the load: a catalog is published, some criteria are     *)
(* selected and the filter effect has run; the user changes criteria and   *)
(* works the popups of the markers.                                        *)
(***************************************************************************)
\* Meetings of a published catalog: two of the pool, at two addresses,
\* and a second meeting at the first address, which the time filter
\* keeps.
ReadyPool ==
    {m \in MeetingPool : m.description \in {<<"m", "1">>, <<"m", "3">>}}
    \cup
    { Located(MkRow(<<"h">>, <<"m", "8">>, monday, evening, hybrid,
                    addressA, Regular, Undefined), resolvedA) }

ReadyInputs ==
    [catalog : UNION { [1..n -> ReadyPool] : n \in 0..MaxCatalog },
     day     : DayChoices,
     time    : TimeChoices,
     type    : TypeChoices,
     format  : FormatChoices]

InitReady ==
    /\ input \in ReadyInputs
    /\ phase = "published"
    /\ csv = "parsed"
    /\ rows = <<>>
    /\ parsedMeetings = input.catalog
    /\ lookups = <<>>
    /\ geocodingCache = preloadedCoordinates
    /\ fetched = [a \in Addresses |-> 0]
    /\ meetings = input.catalog
    /\ filteredMeetings = FilterMeetings(input.catalog, input.day, input.time,
                                         input.type, input.format)
    /\ selectedDay = input.day
    /\ selectedTime = input.time
    /\ selectedType = input.type
    /\ selectedFormat = input.format
    /\ error = NoError
    /\ isLoading = FALSE
    /\ effectPending = FALSE
    /\ changes = 0
    /\ output = <<>>
    /\ called = "none"
    /\ openMarker = NoMarker
    /\ currentIndex = 0

\* The members of the group the open popup shows (the meetings prop of
\* MeetingPopup, lines 716 and 728).
PopupMeetings == markerGroups[openMarker + 1].meetings

\* The user clicks a marker: its popup opens and mounts a MeetingPopup,
\* whose index starts at 0 (line 274).
OpenPopup(index) ==
    /\ openMarker = NoMarker
    /\ index \in 0..(Len(markerGroups) - 1)
    /\ openMarker' = index
    /\ currentIndex' = 0
    /\ UNCHANGED <<loadVars, criteriaVars, effectPending, changes, callVars>>

\* The popup is closed and its MeetingPopup unmounted.
ClosePopup ==
    /\ openMarker # NoMarker
    /\ openMarker' = NoMarker
    /\ currentIndex' = 0
    /\ UNCHANGED <<loadVars, criteriaVars, effectPending, changes, callVars>>

\* nextMeeting (lines 278-280); the button is there for more than one
\* member (lines 286, 311).
nextMeeting ==
    /\ openMarker # NoMarker
    /\ Len(PopupMeetings) > 1
    /\ currentIndex' = (currentIndex + 1) % Len(PopupMeetings)
    /\ UNCHANGED <<loadVars, criteriaVars, effectPending, changes, callVars,
                   openMarker>>

\* prevMeeting (lines 282-284).
prevMeeting ==
    /\ openMarker # NoMarker
    /\ Len(PopupMeetings) > 1
    /\ currentIndex' =
           (currentIndex - 1 + Len(PopupMeetings)) % Len(PopupMeetings)
    /\ UNCHANGED <<loadVars, criteriaVars, effectPending, changes, callVars,
                   openMarker>>

NextReady ==
    \/ \E value \in DayChoices : DayChange(value)
    \/ \E value \in TimeChoices : TimeChange(value)
    \/ \E value \in TypeChoices : TypeChange(value)
    \/ \E value \in FormatChoices : FormatChange(value)
    \/ Reset
    \/ FilterEffect
    \/ \E index \in 0..(MaxCatalog - 1) : OpenPopup(index)
    \/ ClosePopup
    \/ nextMeeting
    \/ prevMeeting

SpecReady == InitReady /\ [][NextReady]_vars

(***************************************************************************)
(* Properties.                                                             *)
(***************************************************************************)
\* The row has no name, or a name of white space only.
BlankName(row) ==
    \/ row = NoRow
    \/ row.name = Undefined
    \/ \A i \in 1..Len(row.name) : row.name[i] = " "

\* t is s without its leading and trailing white space.
IsTrimOf(t, s) ==
    \E i, j \in 1..Len(s) :
        /\ i <= j
        /\ t = SubSeq(s, i, j)
        /\ s[i] # " " /\ s[j] # " "
        /\ \A k \in 1..Len(s) : (k < i \/ k > j) => s[k] = " "

\* The name of a meeting is non-empty after trimming.
NamedMeeting(m) == \E i \in 1..Len(m.name) : m.name[i] # " "

\* The lookups issued for an address.
LookupsOf(address) == {i \in 1..Len(lookups) : lookups[i].address = address}

\* C1: at most one external lookup is issued for any address in a
\* session, also when several rows of one load carry the same uncached
\* address.
C1_AtMostOneLookupPerAddress ==
    \A a \in Addresses : fetched[a] <= 1

\* C2: in the published catalog two meetings with the same non-empty
\* address have the same coordinates.
C2_SameAddressSameCoordinates ==
    \A i, j \in 1..Len(meetings) :
        (Truthy(meetings[i].address) /\ meetings[i].address = meetings[j].address)
            => meetings[i].coordinates = meetings[j].coordinates

\* Witness of C2: a catalog is published in which two meetings share an
\* address that two concurrent lookups resolved to different values.
C2_Witness ==
    /\ phase = "published"
    /\ \E i, j \in 1..Len(meetings) :
          /\ i # j
          /\ Truthy(meetings[i].address)
          /\ meetings[i].address = meetings[j].address
    /\ \E k, l \in 1..Len(lookups) :
          /\ lookups[k].address = lookups[l].address
          /\ lookups[k].result # lookups[l].result

\* The meeting a catalog entry was built from: the entry but for its
\* coordinates.
SameBut(m, parsed) == [m EXCEPT !.coordinates = parsed.coordinates] = parsed

\* C3: the catalog is the initial empty one or the complete result of a
\* finished build: it is not set while a lookup of the build is in
\* flight, it has one entry per validated row, and every entry with an
\* address carries the value the cache holds for that address.
C3_CatalogOnlyFromFinishedBuild ==
    /\ phase # "published" => (meetings = <<>> /\ filteredMeetings = <<>>)
    /\ phase = "published" =>
          /\ \A l \in 1..Len(lookups) : lookups[l].pc = "done"
          /\ Len(meetings) = Len(parsedMeetings)
          /\ \A i \in 1..Len(meetings) :
                /\ SameBut(meetings[i], parsedMeetings[i])
                /\ Truthy(meetings[i].address) =>
                      /\ meetings[i].address \in DOMAIN geocodingCache
                      /\ meetings[i].coordinates =
                             geocodingCache[meetings[i].address]

\* Witness of C3: a catalog is published after lookups, with a meeting
\* whose coordinates a lookup of the build resolved.
C3_Witness ==
    /\ phase = "published"
    /\ Len(lookups) >= 2
    /\ \E i \in 1..Len(meetings), l \in 1..Len(lookups) :
          /\ lookups[l].address = meetings[i].address
          /\ lookups[l].result # Null
          /\ meetings[i].coordinates = lookups[l].result

\* C4: the loading flag is true while the CSV load and its lookups are in
\* flight and false once the catalog is published; it is never false
\* while the catalog is unpublished.
C4_LoadingUntilPublished ==
    /\ phase \in {"fetching", "reading", "geocoding"} => isLoading
    /\ phase = "published" => ~isLoading
    /\ ~isLoading =>
          /\ csv = "parsed"
          /\ \A l \in 1..Len(lookups) : lookups[l].pc = "done"
          /\ Len(meetings) = Len(parsedMeetings)
          /\ \A i \in 1..Len(meetings) :
                SameBut(meetings[i], parsedMeetings[i])

\* Witness of C4: the flag has gone false on a catalog built with
\* lookups.
C4_Witness ==
    /\ ~isLoading
    /\ Len(lookups) > 0
    /\ meetings # <<>>

\* C5: a lookup whose outcome is a network error, a response that is not
\* ok, a malformed response or an empty result set returns null and
\* leaves a cache entry for the address.
C5_FailedLookupReturnsNull ==
    \A l \in 1..Len(lookups) :
        (lookups[l].pc = "done" /\ lookups[l].failed) =>
            /\ lookups[l].result = Null
            /\ lookups[l].address \in DOMAIN geocodingCache

\* The rows of the document that have a name, in row order.
RECURSIVE NamedRows(_)
NamedRows(data) ==
    IF data = <<>> THEN <<>>
    ELSE IF BlankName(Head(data)) THEN NamedRows(Tail(data))
    ELSE <<Head(data)>> \o NamedRows(Tail(data))

\* C6: failed lookups do not abort the build: no error is set, the
\* published catalog has exactly one meeting per row with a non-blank
\* name, in row order, and a meeting whose address failed to resolve is in
\* it with null coordinates.
C6_FailedLookupsKeepMeetings ==
    /\ (\E l \in 1..Len(lookups) : lookups[l].failed) =>
          (error = NoError /\ phase \in {"geocoding", "published"})
    /\ phase = "published" =>
          /\ Len(meetings) = Len(NamedRows(rows))
          /\ \A i \in 1..Len(meetings) :
                /\ meetings[i].description = NamedRows(rows)[i].description
                /\ ( /\ LookupsOf(meetings[i].address) # {}
                     /\ \A l \in LookupsOf(meetings[i].address) :
                           lookups[l].failed /\ lookups[l].result = Null )
                      => meetings[i].coordinates = Null

\* Witness of C6: a catalog is published in which one address failed to
\* resolve and another resolved.
C6_Witness ==
    /\ phase = "published"
    /\ \E i, j \in 1..Len(meetings) :
          /\ meetings[i].coordinates = Null
          /\ \E l \in LookupsOf(meetings[i].address) : lookups[l].failed
          /\ meetings[j].coordinates # Null
          /\ LookupsOf(meetings[j].address) # {}

\* C7: when the fetch of the CSV fails (it rejects or the response is not
\* ok) or the parse fails, the catalog and the filtered list are empty and
\* an error message is set, in that state and every later one.
C7_SourceFailureLeavesCatalogEmpty ==
    csv \in {"reject", "notok", "textreject", "parseerror"} =>
        /\ meetings = <<>>
        /\ filteredMeetings = <<>>
        /\ error # NoError

\* Witness of C7: the load has failed on a response that was not ok, and
\* the filter effect has run since on a changed criterion.
C7_Witness ==
    /\ csv = "notok"
    /\ changes > 0
    /\ ~effectPending

\* C8: a validator rejects a missing row and a row whose name is missing,
\* empty or blank, and otherwise returns the name trimmed.
C8_ValidateRejectsBlankNames ==
    called # "none" =>
        IF BlankName(input) THEN output = Rejected
        ELSE output # Rejected /\ IsTrimOf(output.name, input.name)

\* C8 for validateMeeting of lines 537-554 alone.
C8_MainValidatorRejectsBlankNames ==
    called = "validateMeeting" =>
        IF BlankName(input) THEN output = Rejected
        ELSE output # Rejected /\ IsTrimOf(output.name, input.name)

\* The meetings of all marker groups.
GroupedMeetings ==
    UNION { {markerGroups[g].meetings[k] :
                k \in 1..Len(markerGroups[g].meetings)} :
            g \in 1..Len(markerGroups) }

\* The meetings on display: catalog, filtered list and marker groups.
DisplayedMeetings ==
    {meetings[i] : i \in 1..Len(meetings)}
        \cup {filteredMeetings[i] : i \in 1..Len(filteredMeetings)}
        \cup GroupedMeetings

\* C9: every meeting of the catalog, of the filtered list and of every
\* marker group has a name that is non-empty after trimming, and none of
\* them comes from a row with a blank name.
C9_NoBlankNames ==
    \A m \in DisplayedMeetings :
        /\ NamedMeeting(m)
        /\ \A r \in 1..Len(rows) :
              BlankName(rows[r]) => m.description # rows[r].description

\* Witness of C9: a document with a blank-named row is published and
\* shows a marker group of a geocoded meeting.
C9_Witness ==
    /\ phase = "published"
    /\ \E r \in 1..Len(rows) : BlankName(rows[r])
    /\ filteredMeetings # <<>>
    /\ \E m \in GroupedMeetings : LookupsOf(m.address) # {}

\* C10: the time of a row accepted by validateMeeting is morning,
\* afternoon or evening, and it is morning when the row's time is absent
\* or none of the three.
C10_TimeIsTimeOfDay ==
    (called = "validateMeeting" /\ output # Rejected) =>
        /\ output.time \in TimeOfDay
        /\ input.time \notin TimeOfDay => output.time = morning

\* The choices of the type filter that select the meeting when no other
\* criterion is set.
TypeChoicesSelecting(m) ==
    {t \in MeetingType :
        FilterMeetings(<<m>>, Empty, Empty, t, Empty) = <<m>>}

\* C11: the type of a row accepted by validateMeeting is in-person,
\* virtual or hybrid, the values the type filter offers; it is in-person
\* when the row has no type; so exactly one choice of the type filter
\* selects the meeting.
C11_TypeIsMeetingType ==
    (called = "validateMeeting" /\ output # Rejected) =>
        /\ output.type \in MeetingType
        /\ ~Truthy(input.type) => output.type = inPerson
        /\ Cardinality(TypeChoicesSelecting(output)) = 1

\* s holds entries of t only, each position of t at most once, in the
\* order of t.
RECURSIVE IsSubsequence(_, _)
IsSubsequence(s, t) ==
    IF s = <<>> THEN TRUE
    ELSE IF t = <<>> THEN FALSE
    ELSE IF Head(s) = Head(t) THEN IsSubsequence(Tail(s), Tail(t))
    ELSE IsSubsequence(s, Tail(t))

\* The entries of a sequence.
Entries(s) == {s[i] : i \in 1..Len(s)}

\* Two texts are equal up to the case of their letters.
SameIgnoringCase(a, b) ==
    /\ Len(a) = Len(b)
    /\ \A i \in 1..Len(a) : LowerChar(a[i]) = LowerChar(b[i])

\* The meeting satisfies every criterion that is set: day and format up
\* to case, time and type exactly.
SatisfiesCriteria(m, c) ==
    /\ c.day # Empty => SameIgnoringCase(m.day, c.day)
    /\ c.time # Empty => m.time = c.time
    /\ c.type # Empty => m.type = c.type
    /\ c.format # Empty => SameIgnoringCase(m.format, c.format)

\* No criterion of the input is set.
NoCriterion(c) ==
    c.day = Empty /\ c.time = Empty /\ c.type = Empty /\ c.format = Empty

\* C12: with no criterion set the filter returns the catalog, same
\* meetings in the same order, without the meetings whose name is blank
\* and without any other loss.
C12_NoCriterionKeepsCatalog ==
    (called = "filterMeetings" /\ NoCriterion(input)) =>
        LET named == {i \in 1..Len(input.catalog) :
                         NamedMeeting(input.catalog[i])}
        IN /\ IsSubsequence(output, input.catalog)
           /\ \A k \in 1..Len(output) : NamedMeeting(output[k])
           /\ Len(output) = Cardinality(named)
           /\ Cardinality(named) = Len(input.catalog) =>
                 output = input.catalog

\* Witness of C12: a catalog of three with a blank-named meeting in the
\* middle was filtered with no criterion set, and the other two remain.
C12_Witness ==
    /\ called = "filterMeetings"
    /\ NoCriterion(input)
    /\ Len(input.catalog) = 3
    /\ ~NamedMeeting(input.catalog[2])
    /\ output = <<input.catalog[1], input.catalog[3]>>
    /\ input.catalog[1] # input.catalog[3]

\* The result of the filter with one criterion of c alone.
WithOnly(c, axis) ==
    FilterMeetings(c.catalog,
                   IF axis = "day" THEN c.day ELSE Empty,
                   IF axis = "time" THEN c.time ELSE Empty,
                   IF axis = "type" THEN c.type ELSE Empty,
                   IF axis = "format" THEN c.format ELSE Empty)

\* The criteria of c that are set.
CriteriaSet(c) ==
    {axis \in {"day", "time", "type", "format"} : c[axis] # Empty}

\* C13: the result of the filter is exactly the named meetings of the
\* catalog that satisfy every criterion that is set, in catalog order:
\* day and format are compared without regard to case, time and type
\* exactly; with two or more criteria set the result holds the
\* meetings common to the results of each criterion alone.
C13_ResultSatisfiesEveryCriterion ==
    called = "filterMeetings" =>
        LET chosen == {i \in 1..Len(input.catalog) :
                          /\ NamedMeeting(input.catalog[i])
                          /\ SatisfiesCriteria(input.catalog[i], input)}
        IN /\ IsSubsequence(output, input.catalog)
           /\ \A k \in 1..Len(output) :
                 NamedMeeting(output[k]) /\ SatisfiesCriteria(output[k], input)
           /\ Len(output) = Cardinality(chosen)
           /\ Cardinality(CriteriaSet(input)) >= 2 =>
                 \A m \in Entries(input.catalog) :
                     m \in Entries(output) <=>
                        \A axis \in CriteriaSet(input) :
                            m \in Entries(WithOnly(input, axis))

\* Witness of C13: day monday and format Regular are set; the result
\* keeps a meeting whose day is written Monday and one whose format is
\* written regular, and drops a meeting of the catalog.
C13_Witness ==
    /\ called = "filterMeetings"
    /\ input.day = monday /\ input.format = Regular
    /\ \E m \in Entries(output) : m.day = Monday
    /\ \E m \in Entries(output) : m.format = regular
    /\ Len(output) < Len(input.catalog)
    /\ \E m \in Entries(input.catalog) :
          NamedMeeting(m) /\ m \notin Entries(output)

\* C14: in every state the filtered list is a subsequence of the
\* catalog: it holds catalog meetings only, each at most once, in the
\* order of the catalog.
C14_FilteredIsSubsequenceOfCatalog == IsSubsequence(filteredMeetings, meetings)

\* Witness of C14: the filter ran on a published catalog of two geocoded
\* meetings and kept the second one only.
C14_Witness ==
    /\ phase = "published"
    /\ ~effectPending
    /\ Len(meetings) = 2
    /\ filteredMeetings = <<meetings[2]>>
    /\ meetings[1] # meetings[2]
    /\ meetings[2].coordinates # Null

\* C15: a step that changes a criterion or runs the filter effect leaves
\* the catalog, every field of every meeting included, and the geocoding
\* cache as they were.
C15_FilteringLeavesCatalogAndCache ==
    [][(criteriaVars' # criteriaVars \/ (effectPending /\ ~effectPending'))
          => (meetings' = meetings /\ geocodingCache' = geocodingCache)]_vars

\* Witness of C15: after a criterion change the filter has run again on
\* a published catalog with resolved coordinates and has dropped a
\* meeting, and the cache holds more than the preloaded addresses.
C15_Witness ==
    /\ phase = "published"
    /\ changes > 0
    /\ ~effectPending
    /\ Len(filteredMeetings) < Len(meetings)
    /\ \E m \in Entries(meetings) :
          m.coordinates # Null /\ m.coordinates.tag = "pair"
    /\ DOMAIN geocodingCache # DOMAIN preloadedCoordinates

\* The type of the meeting is virtual, in any casing.
IsVirtual(m) == SameIgnoringCase(m.type, virtual)

\* The meeting belongs on the map: it has coordinates and is not virtual.
Eligible(m) == m.coordinates # Null /\ ~IsVirtual(m)

\* The groups that hold the meeting.
GroupsOf(m, groups) ==
    {g \in 1..Len(groups) : m \in Entries(groups[g].meetings)}

\* C16: groupMeetingsByLocation puts all meetings of equal non-null
\* coordinates and non-virtual type into the same group; a virtual
\* meeting of the catalog that passes the filter is in the filtered
\* list and in no group, also when it has coordinates.
C16_EqualCoordinatesShareGroup ==
    called = "groupMeetingsByLocation" =>
        /\ \A m, n \in Entries(output.meetings) :
              (Eligible(m) /\ Eligible(n) /\ m.coordinates = n.coordinates)
                  => GroupsOf(m, output.groups) \cap
                         GroupsOf(n, output.groups) # {}
        /\ \A m \in Entries(input.catalog) :
              (IsVirtual(m) /\ NamedMeeting(m) /\ SatisfiesCriteria(m, input))
                  => /\ m \in Entries(output.meetings)
                     /\ GroupsOf(m, output.groups) = {}

\* Witness of C16: the filtered list holds two different in-person or
\* hybrid meetings and a virtual meeting, all of the same coordinates;
\* the two share a group and the virtual one is in none.
C16_Witness ==
    /\ called = "groupMeetingsByLocation"
    /\ \E m, n, v \in Entries(output.meetings) :
          /\ m # n
          /\ Eligible(m) /\ Eligible(n)
          /\ v.type = virtual
          /\ m.coordinates = n.coordinates
          /\ v.coordinates = m.coordinates
          /\ GroupsOf(m, output.groups) = GroupsOf(n, output.groups)
          /\ GroupsOf(m, output.groups) # {}
          /\ GroupsOf(v, output.groups) = {}

\* The groups partition the eligible meetings of the list by their
\* coordinates: no group is empty, no two groups have the same
\* coordinates, the members of a group are the eligible meetings of the
\* group's coordinates in the order of the list, and a meeting is in
\* one group if it is eligible and in none otherwise.
PartitionByCoordinates(ms, groups) ==
    /\ \A g \in 1..Len(groups) : groups[g].meetings # <<>>
    /\ \A g, h \in 1..Len(groups) :
          groups[g].coordinates = groups[h].coordinates => g = h
    /\ \A g \in 1..Len(groups) :
          /\ \A m \in Entries(groups[g].meetings) :
                m.coordinates = groups[g].coordinates
          /\ IsSubsequence(groups[g].meetings, ms)
          /\ Len(groups[g].meetings) =
                Cardinality({i \in 1..Len(ms) :
                                /\ Eligible(ms[i])
                                /\ ms[i].coordinates = groups[g].coordinates})
    /\ \A m \in Entries(ms) :
          Cardinality(GroupsOf(m, groups)) = IF Eligible(m) THEN 1 ELSE 0

\* C17: the marker groups are a partition of the eligible meetings of
\* the filtered list: each distinct coordinate pair is in exactly one
\* group, no group is empty, each eligible meeting is a member of
\* exactly one group, and the members keep the order of the list.
C17_GroupsPartitionEligibleMeetings ==
    PartitionByCoordinates(filteredMeetings, markerGroups)

\* C19: every meeting of the published catalog whose address is empty
\* has null coordinates, whatever else its row carries, and is in no
\* marker group.
C19_NoAddressNoCoordinates ==
    \A m \in Entries(meetings) :
        ~Truthy(m.address) =>
            m.coordinates = Null /\ m \notin GroupedMeetings

\* C20: once the cache holds a value for an address no step changes
\* that value, so concurrent lookups of one address write the same
\* value and the cache does not depend on the order they complete in.
C20_CacheValuesNeverChange ==
    [][\A a \in DOMAIN geocodingCache :
          /\ a \in DOMAIN geocodingCache'
          /\ geocodingCache'[a] = geocodingCache[a]]_vars

\* C21: the keys of the geocoding cache only grow: the preloaded
\* addresses are keys in every state, no step removes a key, and a step
\* that sends an address to the geocoding service finds it absent from
\* the cache.
C21_CacheKeysOnlyGrow ==
    /\ [](DOMAIN preloadedCoordinates \subseteq DOMAIN geocodingCache)
    /\ [][/\ DOMAIN geocodingCache \subseteq DOMAIN geocodingCache'
          /\ \A a \in Addresses :
                fetched'[a] > fetched[a] => a \notin DOMAIN geocodingCache]_vars

\* Witness of C21: a document with a row of a preloaded address and a
\* row of an unknown address is published; the unknown address was sent
\* to the service and is a key now, the preloaded one was never sent.
C21_Witness ==
    /\ phase = "published"
    /\ \E m \in Entries(meetings) : m.address = seedAddress
    /\ fetched[seedAddress] = 0
    /\ \E a \in Addresses \ DOMAIN preloadedCoordinates :
          fetched[a] > 0 /\ a \in DOMAIN geocodingCache

\* The column has a non-empty value.
NonEmptyColumn(v) == v # Undefined /\ v # Empty

\* The first non-empty value of the columns, the empty string if there
\* is none.
FirstNonEmpty(columns) ==
    IF \E i \in 1..Len(columns) : NonEmptyColumn(columns[i])
    THEN columns[CHOOSE i \in 1..Len(columns) :
                    /\ NonEmptyColumn(columns[i])
                    /\ \A j \in 1..(i - 1) : ~NonEmptyColumn(columns[j])]
    ELSE Empty

\* C22: the remote-join identifier of a row accepted by validateMeeting
\* is the first non-empty value of the columns Zoomid, zoomId in this
\* order, and its notes the first non-empty value of Notes, notes; each
\* is the empty string when both columns are empty.
C22_AliasesInFixedOrder ==
    (called = "validateMeeting" /\ output # Rejected) =>
        /\ output.zoomId = FirstNonEmpty(<<input.Zoomid, input.zoomId>>)
        /\ output.notes = FirstNonEmpty(<<input.Notes, input.notes>>)

\* Witness of C22: a row with both identifier columns filled and only
\* the notes column of the second alias filled was accepted.
C22_Witness ==
    /\ called = "validateMeeting"
    /\ output # Rejected
    /\ input.Zoomid = <<"1">> /\ input.zoomId = <<"2">>
    /\ input.Notes = Empty /\ input.notes = <<"2">>
    /\ output.zoomId = <<"1">>
    /\ output.notes = <<"2">>

\* The criteria selected in the state.
Selected ==
    [day |-> selectedDay, time |-> selectedTime, type |-> selectedType,
     format |-> selectedFormat]

\* C23: whenever no filter effect is pending, after any criterion
\* changes and the completion of the load, the filtered list is the
\* filter of the current catalog by the selected day, time, type and
\* format: the meetings of the catalog that satisfy them, in order.
C23_FilteredInSyncWhenEffectsRan ==
    ~effectPending =>
        LET chosen == {i \in 1..Len(meetings) :
                          /\ NamedMeeting(meetings[i])
                          /\ SatisfiesCriteria(meetings[i], Selected)}
        IN /\ IsSubsequence(filteredMeetings, meetings)
           /\ \A m \in Entries(filteredMeetings) :
                 SatisfiesCriteria(m, Selected)
           /\ Len(filteredMeetings) = Cardinality(chosen)

\* Witness of C23: after two criterion changes and the publication of a
\* catalog of two the effects have run, two criteria are set, and the
\* filtered list holds one of the two meetings.
C23_Witness ==
    /\ phase = "published"
    /\ changes = 2
    /\ ~effectPending
    /\ Cardinality(CriteriaSet(Selected)) = 2
    /\ Len(meetings) = 2
    /\ Len(filteredMeetings) = 1

\* C24: the step that publishes the catalog, and so finds the criteria
\* as they were set during the load, leaves no meeting in the filtered
\* list that fails a selected criterion.
C24_PublishedListRespectsCriteria ==
    [][(phase # "published" /\ phase' = "published") =>
          \A m \in Entries(filteredMeetings') :
              SatisfiesCriteria(m, Selected)]_vars

\* C25: an error message and the loading notice are never both shown:
\* on every outcome of the load that sets the error the loading flag is
\* false.
C25_NeverErrorWhileLoading == ~(error # NoError /\ isLoading)

\* C26: while a popup is open the index of its MeetingPopup is a valid
\* index into the members of the group its marker shows: from 0 to the
\* number of members less one, also after a filter change has shrunk
\* the group.
C26_CurrentIndexIsValid ==
    openMarker # NoMarker =>
        currentIndex \in 0..(Len(PopupMeetings) - 1)

\* C27: a Reset Filters step, whatever criteria were selected, leaves
\* day, time, type and format empty; and with the four criteria empty
\* and no filter effect pending the filtered list is the whole catalog.
C27_ResetShowsWholeCatalog ==
    /\ [][Reset => /\ selectedDay' = Empty
                   /\ selectedTime' = Empty
                   /\ selectedType' = Empty
                   /\ selectedFormat' = Empty]_vars
    /\ []((NoCriterion(Selected) /\ ~effectPending)
             => filteredMeetings = meetings)

\* Witness of C27: the page started with all four criteria selected and
\* a filtered list shorter than its catalog; after one change, which
\* only Reset Filters can be, the criteria are empty, the effect has
\* run and the filtered list is the catalog.
C27_Witness ==
    /\ called = "none"
    /\ Cardinality(CriteriaSet(input)) = 4
    /\ Len(FilterMeetings(input.catalog, input.day, input.time, input.type,
                          input.format)) < Len(input.catalog)
    /\ changes = 1
    /\ NoCriterion(Selected)
    /\ ~effectPending
    /\ Len(meetings) >= 2
    /\ filteredMeetings = meetings

====
